---- MODULE Spec2Model ----
(***************************************************************************)
(* FloorPlanGenie: the placement engine (IntelligentPlacementEngine), its  *)
(* constraint validator, and the basic optimizer (SpaceOptimizer).         *)
(*                                                                         *)
(* Lengths are integers in millimetres (1 m = 1000), areas in mm^2.        *)
(* Factors of the profile catalog are kept as integers: coverage in        *)
(* percent, box_size_factor and spacing_factor in tenths.                  *)
(***************************************************************************)
EXTENDS Integers, Sequences, FiniteSets, TLC

VARIABLES
    plan_id,          \* key of the plan the requests are about
    plan_data,        \* the plan's geometry: dimensions, walls, zones
    layout_profiles,  \* IntelligentPlacementEngine.layout_profiles
    seed_stream,      \* the draws the generator seeded with 42 yields
    rng_pos,          \* how far the last search read into the stream
    op,               \* the last engine call: "none", "optimize", "validate"
    request,          \* arguments of the last optimize_placement call
    result,           \* what the last optimize_placement call returned
    validation,       \* arguments and outcome of the last _validate_constraints
    repeated,         \* history: whether the last optimize call repeated the
                      \* one before it ("no"), and if so whether it returned
                      \* the same units and corridors ("same", "differs")
    so_corridor_width, \* SpaceOptimizer.corridor_width (instance field)
    so_call,          \* per call of SpaceOptimizer.optimize_placement
    PRODUCTION_MODE,  \* app.py: whether the production components were imported
    response,         \* app.py: what the last POST /optimize answered (body,
                      \* status), and history: whether the engine was called
                      \* and raised, which optimizer made the body
                      \* (served_by), the id the request carried, the plan
                      \* an upload returned under that id, and the plan found
    upload_files,     \* app.py: the files under uploads/, oldest first
    pp_plans,         \* PlanProcessor.plans: the stored plans, by id
    uuids,            \* how many ids uuid4 has made
    upload_responses  \* history: the plan_id each successful upload returned
                      \* and the plan it had processed

app_vars == <<PRODUCTION_MODE, response, upload_files, pp_plans, uuids, upload_responses>>

vars == <<plan_id, plan_data, layout_profiles, seed_stream, rng_pos, op, request,
          result, validation, repeated, so_corridor_width, so_call, app_vars>>

-----------------------------------------------------------------------------
(* Arithmetic helpers *)

Min(a, b) == IF a <= b THEN a ELSE b
Max(a, b) == IF a >= b THEN a ELSE b
Abs(a) == IF a >= 0 THEN a ELSE -a

\* floor of the square root (math.sqrt, rounded down to an integer), by bisection
RECURSIVE ISqrtBetween(_, _, _)
ISqrtBetween(n, lo, hi) ==
    IF lo >= hi THEN lo
    ELSE LET mid == (lo + hi + 1) \div 2
         IN  IF mid * mid <= n THEN ISqrtBetween(n, mid, hi)
                               ELSE ISqrtBetween(n, lo, mid - 1)
ISqrt(n) == ISqrtBetween(n, 0, Min(n, 46340))

RECURSIVE SumSeq(_)
SumSeq(s) == IF s = <<>> THEN 0 ELSE Head(s) + SumSeq(Tail(s))

SeqToSet(s) == {s[i] : i \in DOMAIN s}

SetMax(S) == CHOOSE v \in S : \A u \in S : v >= u
SetMin(S) == CHOOSE v \in S : \A u \in S : v <= u

-----------------------------------------------------------------------------
(* Program constants *)

\* grid_resolution = min(width, height) / 50
GridDivisions == 50
\* wall_line.buffer(0.15)
WallThickness == 150
\* if min_wall_distance > 0.5
MinWallDistanceGrid == 500
\* min_size = 0.5
MinBoxSize == 500
\* max_width = building_dimensions['width'] / 3
MaxBoxFraction == 3
\* math.sqrt(building_area / 100): the reference area, 100 m^2, in mm^2 / 100
ReferenceAreaRoot == 10000
\* if use_flag > 0.5 (flags are kept in tenths)
UseThreshold == 5
\* min_wall_distance = 0.5 in _validate_constraints
MinWallDistance == 500
\* margin = 0.3 in _validate_constraints
BoundaryMargin == 300
\* if 0.5 <= min_distance <= 2.0, around optimal_distance = 1.0, in
\* _calculate_wall_proximity_score
MinOptimalDistance == 500
OptimalDistance == 1000
MaxOptimalDistance == 2000

\* __init__: the catalog of layout profiles
InitialLayoutProfiles ==
    [p \in {"10%", "25%", "30%", "35%"} |->
        CASE p = "10%" -> [coverage |-> 10, box_size_factor |-> 8,  spacing_factor |-> 15]
          [] p = "25%" -> [coverage |-> 25, box_size_factor |-> 10, spacing_factor |-> 12]
          [] p = "30%" -> [coverage |-> 30, box_size_factor |-> 11, spacing_factor |-> 10]
          [] p = "35%" -> [coverage |-> 35, box_size_factor |-> 12, spacing_factor |-> 8]]

-----------------------------------------------------------------------------
(* Geometry (shapely) on axis-aligned walls and rectangles *)

Pt(x, y) == [x |-> x, y |-> y]
Rect(x, y, w, h) == [x |-> x, y |-> y, width |-> w, height |-> h]

\* squared Euclidean distance of two centers; the weights are compared only,
\* and math.sqrt keeps their order
DistSq(p, q) == (p.x - q.x) * (p.x - q.x) + (p.y - q.y) * (p.y - q.y)

\* 1-D distance from coordinate c to the interval [lo, hi]
GapTo(c, lo, hi) == IF c < lo THEN lo - c ELSE IF c > hi THEN c - hi ELSE 0

\* 1-D distance between the intervals [a1, a2] and [b1, b2]
GapBetween(a1, a2, b1, b2) ==
    IF a2 < b1 THEN b1 - a2 ELSE IF b2 < a1 THEN a1 - b2 ELSE 0

\* squared distance from a point to an axis-aligned wall segment
PointWallDistSq(px, py, wall) ==
    LET dx == GapTo(px, Min(wall.start.x, wall.end.x), Max(wall.start.x, wall.end.x))
        dy == GapTo(py, Min(wall.start.y, wall.end.y), Max(wall.start.y, wall.end.y))
    IN  dx * dx + dy * dy

\* squared distance between a rectangle and an axis-aligned wall segment
\* (LineString.distance(Polygon): 0 when they touch or cross)
RectWallDistSq(b, wall) ==
    LET dx == GapBetween(b.x, b.x + b.width,
                         Min(wall.start.x, wall.end.x), Max(wall.start.x, wall.end.x))
        dy == GapBetween(b.y, b.y + b.height,
                         Min(wall.start.y, wall.end.y), Max(wall.start.y, wall.end.y))
    IN  dx * dx + dy * dy

\* squared rectangle-to-rectangle clearance (0 when they touch or overlap)
RectClearanceSq(a, b) ==
    LET dx == GapBetween(a.x, a.x + a.width, b.x, b.x + b.width)
        dy == GapBetween(a.y, a.y + a.height, b.y, b.y + b.height)
    IN  dx * dx + dy * dy

\* Polygon.contains(Point) for a box(): the boundary is not contained
RectContainsPoint(z, px, py) ==
    /\ z.x < px /\ px < z.x + z.width
    /\ z.y < py /\ py < z.y + z.height

\* Polygon.intersects(Polygon) for two rectangles: touching counts
RectsIntersect(a, b) ==
    /\ a.x <= b.x + b.width /\ b.x <= a.x + a.width
    /\ a.y <= b.y + b.height /\ b.y <= a.y + a.height

\* the interiors of two rectangles meet (positive-area overlap)
RectsOverlapInterior(a, b) ==
    /\ a.x < b.x + b.width /\ b.x < a.x + a.width
    /\ a.y < b.y + b.height /\ b.y < a.y + a.height

\* orientation of the triple (p, q, r): sign of the cross product
Cross(p, q, r) == (q.x - p.x) * (r.y - p.y) - (q.y - p.y) * (r.x - p.x)
Sign(v) == IF v > 0 THEN 1 ELSE IF v < 0 THEN -1 ELSE 0
OnSegment(p, q, r) ==
    /\ Min(p.x, q.x) <= r.x /\ r.x <= Max(p.x, q.x)
    /\ Min(p.y, q.y) <= r.y /\ r.y <= Max(p.y, q.y)

\* the closed segments p1-p2 and q1-q2 have a common point
SegmentsIntersect(p1, p2, q1, q2) ==
    LET d1 == Sign(Cross(q1, q2, p1))
        d2 == Sign(Cross(q1, q2, p2))
        d3 == Sign(Cross(p1, p2, q1))
        d4 == Sign(Cross(p1, p2, q2))
    IN  \/ (d1 * d2 < 0 /\ d3 * d4 < 0)
        \/ (d1 = 0 /\ OnSegment(q1, q2, p1))
        \/ (d2 = 0 /\ OnSegment(q1, q2, p2))
        \/ (d3 = 0 /\ OnSegment(p1, p2, q1))
        \/ (d4 = 0 /\ OnSegment(p1, p2, q2))

-----------------------------------------------------------------------------
(* The plans (plan_data as the CAD processors hand it over)                *)

Wall(x1, y1, x2, y2) == [start |-> Pt(x1, y1), end |-> Pt(x2, y2)]
\* a zone as the processors emit it: a rectangle, without a 'polygon' key
Zone(x, y, w, h) == [x |-> x, y |-> y, width |-> w, height |-> h, polygon |-> FALSE]

\* _create_boundary_walls(width, height)
create_boundary_walls(width, height) ==
    << Wall(0, 0, width, 0), Wall(width, 0, width, height),
       Wall(width, height, 0, height), Wall(0, height, 0, 0) >>

PlanIds == {"open", "half", "wall", "closet", "flat"}

Plans ==
    [id \in PlanIds |->
        CASE id = "open" ->
               \* 10 x 10 m, no obstacle
               [dimensions |-> [width |-> 10000, height |-> 10000],
                walls |-> <<>>,
                zones |-> [no_entry |-> <<>>, entry_exit |-> <<>>]]
          [] id = "half" ->
               \* 10 x 10 m, the right half is a no-entry zone, an entrance
               \* zone lies in the lower left corner
               [dimensions |-> [width |-> 10000, height |-> 10000],
                walls |-> <<>>,
                zones |-> [no_entry |-> << Zone(5000, 0, 5000, 10000) >>,
                           entry_exit |-> << Zone(0, 0, 1500, 1500) >>]]
          [] id = "wall" ->
               \* 10 x 10 m, one wall from bottom to top through the middle
               [dimensions |-> [width |-> 10000, height |-> 10000],
                walls |-> << Wall(5000, 0, 5000, 10000) >>,
                zones |-> [no_entry |-> <<>>, entry_exit |-> <<>>]]
          [] id = "closet" ->
               \* 1 x 1 m enclosed by its boundary walls: no grid point is
               \* further than 0.5 m from the walls
               [dimensions |-> [width |-> 1000, height |-> 1000],
                walls |-> create_boundary_walls(1000, 1000),
                zones |-> [no_entry |-> <<>>, entry_exit |-> <<>>]]
          [] id = "flat" ->
               \* a drawing of one horizontal line of 10 m: the extent of its
               \* entities has height 0
               [dimensions |-> [width |-> 10000, height |-> 0],
                walls |-> << Wall(0, 0, 10000, 0) >>,
                zones |-> [no_entry |-> <<>>, entry_exit |-> <<>>]]]

-----------------------------------------------------------------------------
(* IntelligentPlacementEngine._create_spatial_framework                    *)

\* np.arange(0, limit, step)
Arange(limit, step) == [k \in 1..((limit + step - 1) \div step) |-> (k - 1) * step]

\* box(zone.x, zone.y, zone.x + zone.width, zone.y + zone.height) for the
\* no_entry zones, then for the entry_exit zones
restricted_zones_of(zones) ==
    [i \in 1..(Len(zones.no_entry) + Len(zones.entry_exit)) |->
        LET z == IF i <= Len(zones.no_entry) THEN zones.no_entry[i]
                 ELSE zones.entry_exit[i - Len(zones.no_entry)]
        IN  Rect(z.x, z.y, z.width, z.height)]

\* obstacle_union.contains(point): strictly inside a wall buffer or a zone
\* (the obstacles of the plans above neither touch nor overlap each other)
obstacle_contains(px, py, walls, restricted) ==
    \/ \E i \in DOMAIN walls :
           PointWallDistSq(px, py, walls[i]) < WallThickness * WallThickness
    \/ \E i \in DOMAIN restricted : RectContainsPoint(restricted[i], px, py)

\* min over the wall buffers of point.distance(buffer) > 0.5; a buffer of
\* radius 0.15 is 0.5 away where the wall itself is 0.65 away (float('inf')
\* without walls)
far_from_walls(px, py, walls) ==
    \A i \in DOMAIN walls :
        PointWallDistSq(px, py, walls[i]) >
            (WallThickness + MinWallDistanceGrid) * (WallThickness + MinWallDistanceGrid)

\* the test of one grid point in the double loop over x_coords, y_coords
grid_point_available(px, py, dimensions, walls, restricted) ==
    /\ 0 <= px /\ px <= dimensions.width
    /\ 0 <= py /\ py <= dimensions.height
    /\ ~obstacle_contains(px, py, walls, restricted)
    /\ far_from_walls(px, py, walls)

\* _create_spatial_framework(dimensions, walls, zones). With a width or a
\* height of 0 grid_resolution is 0 and np.arange(0, width, 0) raises
create_spatial_framework(dimensions, walls, zones) ==
    LET grid_resolution == Min(dimensions.width, dimensions.height) \div GridDivisions
        x_coords == Arange(dimensions.width, grid_resolution)
        y_coords == Arange(dimensions.height, grid_resolution)
        restricted == restricted_zones_of(zones)
        ny == Len(y_coords)
        all_points == [k \in 1..(Len(x_coords) * ny) |->
                          Pt(x_coords[((k - 1) \div ny) + 1], y_coords[((k - 1) % ny) + 1])]
        Avail(p) == grid_point_available(p.x, p.y, dimensions, walls, restricted)
    IN  IF Min(dimensions.width, dimensions.height) = 0
        THEN [raised |-> TRUE,
              dimensions |-> dimensions,
              available_grid |-> <<>>,
              wall_obstacles |-> walls,
              restricted_zones |-> restricted,
              grid_resolution |-> 0]
        ELSE [raised |-> FALSE,
              dimensions |-> dimensions,
              available_grid |-> SelectSeq(all_points, Avail),
              wall_obstacles |-> walls,
              restricted_zones |-> restricted,
              grid_resolution |-> grid_resolution]

\* the framework of each plan, computed once
SpatialFrameworks ==
    [id \in PlanIds |->
        create_spatial_framework(Plans[id].dimensions, Plans[id].walls, Plans[id].zones)]

-----------------------------------------------------------------------------
(* Bounds and inputs of the model                                          *)

\* number of (point index, use flag) pairs of a search result the stream
\* decides; the pairs after them stay below the use threshold
MaxDraws == 3

\* requested unit sizes (box_dimensions) and corridor widths
BoxSizes == { [width |-> 2000, height |-> 2000], [width |-> 2500, height |-> 2500],
              [width |-> 4000, height |-> 4000] }
CorridorWidths == { 1200 }
\* profile identifiers a caller may send: the catalog's and an unknown one
RequestedProfiles == {"10%", "25%", "30%", "35%", "50%"}

\* grid positions the search result may name
SampleCells == { Pt(2200, 2000), Pt(4200, 2000), Pt(7000, 9000) }
\* one draw of the stream: a grid position and a use flag (in tenths)
Draws == { [at |-> c, use_flag |-> 9] : c \in SampleCells }
Streams == [1..MaxDraws -> Draws]

-----------------------------------------------------------------------------
(* IntelligentPlacementEngine: placement                                   *)

\* _adjust_box_dimensions(box_dimensions, profile, building_dimensions).
\* scale_factor is kept in thousandths; max_width is rounded down to the mm
adjust_box_dimensions(box_dimensions, profile, building_dimensions) ==
    LET size_factor == profile.box_size_factor
        building_area == building_dimensions.width * building_dimensions.height
        scale_factor == Min(1000, (ISqrt(building_area) * 1000) \div ReferenceAreaRoot)
        adjusted_width == Max((box_dimensions.width * size_factor * scale_factor) \div 10000,
                              MinBoxSize)
        adjusted_height == Max((box_dimensions.height * size_factor * scale_factor) \div 10000,
                               MinBoxSize)
        max_width == building_dimensions.width \div MaxBoxFraction
        max_height == building_dimensions.height \div MaxBoxFraction
    IN  [width |-> Min(adjusted_width, max_width),
         height |-> Min(adjusted_height, max_height)]

\* an overlap test that knows only units at the same place
boxes_overlap_same_place(box1, box2) == box1.x = box2.x /\ box1.y = box2.y

\* _boxes_overlap(box1, box2)
boxes_overlap(box1, box2) ==
    ~ ( \/ box1.x + box1.width <= box2.x
        \/ box2.x + box2.width <= box1.x
        \/ box1.y + box1.height <= box2.y
        \/ box2.y + box2.height <= box1.y )

\* the body of the loop without the test of the building bounds
place_pair_unbounded(boxes, pair, available_points, box_dims, building_dims) ==
    LET point_idx == pair.point_idx % Len(available_points)
        point == available_points[point_idx + 1]
        box == [x |-> point.x - box_dims.width \div 2,
                y |-> point.y - box_dims.height \div 2,
                width |-> box_dims.width,
                height |-> box_dims.height,
                center |-> Pt(point.x, point.y)]
    IN  IF pair.use_flag > UseThreshold
           /\ ~ \E i \in DOMAIN boxes : boxes_overlap(box, boxes[i])
        THEN Append(boxes, box)
        ELSE boxes

\* the body of the loop of _params_to_boxes for one (point_idx, use_flag)
\* pair: the boxes after the pair
place_pair(boxes, pair, available_points, box_dims, building_dims) ==
    LET point_idx == pair.point_idx % Len(available_points)
        point == available_points[point_idx + 1]
        box == [x |-> point.x - box_dims.width \div 2,
                y |-> point.y - box_dims.height \div 2,
                width |-> box_dims.width,
                height |-> box_dims.height,
                center |-> Pt(point.x, point.y)]
    IN  IF pair.use_flag > UseThreshold
           /\ box.x >= 0 /\ box.y >= 0
           /\ box.x + box.width <= building_dims.width
           /\ box.y + box.height <= building_dims.height
           /\ ~ \E i \in DOMAIN boxes : boxes_overlap(box, boxes[i])
        THEN Append(boxes, box)
        ELSE boxes

RECURSIVE place_pairs(_, _, _, _, _, _)
place_pairs(boxes, params, k, available_points, box_dims, building_dims) ==
    IF k > Len(params) THEN boxes
    ELSE place_pairs(place_pair(boxes, params[k], available_points, box_dims, building_dims),
                     params, k + 1, available_points, box_dims, building_dims)

\* _params_to_boxes(params, available_points, box_dims, spatial_framework);
\* params is the sequence of (point_idx, use_flag) pairs
params_to_boxes(params, available_points, box_dims, spatial_framework) ==
    place_pairs(<<>>, params, 1, available_points, box_dims, spatial_framework.dimensions)

\* the pairs i < j of the indices of boxes
BoxPairs(boxes) == { pr \in (DOMAIN boxes) \X (DOMAIN boxes) : pr[1] < pr[2] }

\* _calculate_overlap_penalty(boxes): the number of overlapping pairs
calculate_overlap_penalty(boxes) ==
    Cardinality({ pr \in BoxPairs(boxes) : boxes_overlap(boxes[pr[1]], boxes[pr[2]]) })

\* _calculate_spacing_score(boxes, spacing_factor), in thousandths, rounded
\* down. target_distance = 2.0 * spacing_factor; a pair counts 1 between half
\* and twice the target, 0.5 beyond, -0.5 at or below half of it
calculate_spacing_score(boxes, spacing_factor) ==
    LET target_distance == 2 * spacing_factor * 100
        pairs == BoxPairs(boxes)
        d2(pr) == DistSq(boxes[pr[1]].center, boxes[pr[2]].center)
        near == Cardinality({ pr \in pairs : 4 * d2(pr) <= target_distance * target_distance })
        far == Cardinality({ pr \in pairs : d2(pr) > 4 * target_distance * target_distance })
        good == Cardinality(pairs) - near - far
    IN  IF Len(boxes) < 2 THEN 1000
        ELSE ((2 * good + far - near) * 500) \div Cardinality(pairs)

\* _calculate_wall_proximity_score(boxes, spatial_framework), in thousandths,
\* rounded down; the distance of a center to a wall obstacle is its distance
\* to the wall less the thickness of the buffer, taken to the millimetre
calculate_wall_proximity_score(boxes, spatial_framework) ==
    LET wall_obstacles == spatial_framework.wall_obstacles
        distance(box, wall) ==
            Max(0, ISqrt(PointWallDistSq(box.center.x, box.center.y, wall)) - WallThickness)
        min_distance(box) ==
            SetMin({ distance(box, wall_obstacles[k]) : k \in DOMAIN wall_obstacles })
        part(box) == IF MinOptimalDistance <= min_distance(box)
                        /\ min_distance(box) <= MaxOptimalDistance
                     THEN OptimalDistance - Abs(min_distance(box) - OptimalDistance)
                     ELSE 0
    IN  IF wall_obstacles = <<>> \/ boxes = <<>> THEN 0
        ELSE (SumSeq([i \in DOMAIN boxes |-> part(boxes[i])]) * 1000)
                 \div (OptimalDistance * Len(boxes))

\* _calculate_connectivity_score(boxes, corridor_width), in thousandths,
\* rounded down: the share of the pairs whose centers are between 2 and 10
\* corridor widths apart
calculate_connectivity_score(boxes, corridor_width) ==
    LET pairs == BoxPairs(boxes)
        d2(pr) == DistSq(boxes[pr[1]].center, boxes[pr[2]].center)
        joinable == { pr \in pairs : /\ 4 * corridor_width * corridor_width <= d2(pr)
                                     /\ d2(pr) <= 100 * corridor_width * corridor_width }
    IN  IF Len(boxes) < 2 THEN 1000
        ELSE (Cardinality(joinable) * 1000) \div Cardinality(pairs)

\* _evaluate_placement(params, ...), in thousandths, for the boxes
\* _params_to_boxes makes of params
evaluate_placement(boxes, spatial_framework, corridor_width, profile) ==
    IF boxes = <<>> THEN 0
    ELSE Len(boxes) * 10 * 1000
         - calculate_overlap_penalty(boxes) * 100 * 1000
         + calculate_spacing_score(boxes, profile.spacing_factor) * 5
         + calculate_wall_proximity_score(boxes, spatial_framework) * 3
         + calculate_connectivity_score(boxes, corridor_width) * 8

\* the smallest k in lo..hi with points[k] at or after (px, py) in grid order
\* (x first, then y), hi + 1 if there is none
RECURSIVE FirstAtOrAfter(_, _, _, _, _)
FirstAtOrAfter(points, px, py, lo, hi) ==
    IF lo > hi THEN lo
    ELSE LET mid == (lo + hi) \div 2
             p == points[mid]
         IN  IF p.x > px \/ (p.x = px /\ p.y >= py)
             THEN FirstAtOrAfter(points, px, py, lo, mid - 1)
             ELSE FirstAtOrAfter(points, px, py, mid + 1, hi)

\* the value a draw gives a (point index, use flag) pair within its bounds
\* (0, len(available_points) - 1) and (0, 1): the index of the first
\* available grid point at or after the drawn position
pair_of_draw(draw, available_points) ==
    [point_idx |-> Min(FirstAtOrAfter(available_points, draw.at.x, draw.at.y,
                                      1, Len(available_points)),
                       Len(available_points)) - 1,
     use_flag |-> draw.use_flag]

\* the generator left where the previous call stopped (no seed given)
rng_start_unseeded(pos) == pos

\* where the generator of a call starts in the stream: seed=42 restarts it
rng_start(pos) == 0

\* scipy's differential_evolution(objective_function, bounds, ..., seed=42),
\* as far as the engine relies on it: the vector returned lies within the
\* bounds and is decided by the generator's draws; empty bounds are rejected
differential_evolution(n_pairs, available_points, stream, start) ==
    IF n_pairs <= 0 THEN [raised |-> TRUE, x |-> <<>>]
    ELSE [raised |-> FALSE,
          x |-> [i \in 1..n_pairs |->
                   IF start + i <= Len(stream)
                   THEN pair_of_draw(stream[start + i], available_points)
                   ELSE [point_idx |-> 0, use_flag |-> 0]]]

\* max_boxes with the quotient rounded up instead of down
max_boxes_of_rounded_up(spatial_framework, box_dims, profile) ==
    LET total_area == spatial_framework.dimensions.width * spatial_framework.dimensions.height
        box_area == box_dims.width * box_dims.height
    IN  Min(((total_area \div 100) * profile.coverage + box_area - 1) \div box_area,
            Len(spatial_framework.available_grid) \div 4)

\* max_boxes of _multi_objective_optimization: int(total_area * coverage /
\* box_area), at most len(available_points) // 4
max_boxes_of(spatial_framework, box_dims, profile) ==
    LET total_area == spatial_framework.dimensions.width * spatial_framework.dimensions.height
        box_area == box_dims.width * box_dims.height
    IN  Min(((total_area \div 100) * profile.coverage) \div box_area,
            Len(spatial_framework.available_grid) \div 4)

\* _multi_objective_optimization without its two early returns
multi_objective_optimization_unguarded(spatial_framework, box_dims, corridor_width, profile, stream, pos) ==
    LET available_points == spatial_framework.available_grid
        max_boxes == max_boxes_of(spatial_framework, box_dims, profile)
        de == differential_evolution(max_boxes, available_points, stream, rng_start(pos))
        boxes == params_to_boxes(de.x, available_points, box_dims, spatial_framework)
    IN  IF de.raised THEN [raised |-> TRUE, boxes |-> <<>>, score |-> 0, drawn |-> 0]
        ELSE [raised |-> FALSE,
              boxes |-> boxes,
              score |-> evaluate_placement(boxes, spatial_framework, corridor_width, profile),
              drawn |-> Min(rng_start(pos) + max_boxes, Len(stream))]

\* _multi_objective_optimization(spatial_framework, box_dims, corridor_width, profile)
multi_objective_optimization(spatial_framework, box_dims, corridor_width, profile, stream, pos) ==
    LET available_points == spatial_framework.available_grid
        max_boxes == max_boxes_of(spatial_framework, box_dims, profile)
        de == differential_evolution(max_boxes, available_points, stream, rng_start(pos))
        boxes == params_to_boxes(de.x, available_points, box_dims, spatial_framework)
    IN  IF available_points = <<>>
        THEN [raised |-> FALSE, boxes |-> <<>>, score |-> 0, drawn |-> 0]
        ELSE IF max_boxes <= 0
        THEN [raised |-> FALSE, boxes |-> <<>>, score |-> 0, drawn |-> 0]
        ELSE IF de.raised THEN [raised |-> TRUE, boxes |-> <<>>, score |-> 0, drawn |-> 0]
        ELSE [raised |-> FALSE,
              boxes |-> boxes,
              score |-> evaluate_placement(boxes, spatial_framework, corridor_width, profile),
              drawn |-> Min(rng_start(pos) + max_boxes, Len(stream))]

-----------------------------------------------------------------------------
(* IntelligentPlacementEngine: corridors                                   *)


\* G.add_edge(i, j, weight=distance) for i < j: the edges in insertion order
\* (nodes are numbered from 1 here, from 0 in the code)
complete_graph_edges(n) ==
    LET Row(i) == [k \in 1..(n - i) |-> <<i, i + k>>]
        RECURSIVE Rows(_)
        Rows(i) == IF i >= n THEN <<>> ELSE Row(i) \o Rows(i + 1)
    IN  Rows(1)

\* the edges left in insertion order
edges_in_insertion_order(edges, points) == edges

\* sorted(edges, key=weight): stable, so equal weights keep insertion order;
\* an edge's place is one more than the number of edges that are lighter, or
\* as heavy and inserted before it
sort_edges_by_weight(edges, points) ==
    LET weight == [k \in DOMAIN edges |-> DistSq(points[edges[k][1]], points[edges[k][2]])] \o <<>>
        place == [k \in DOMAIN edges |->
                     1 + Cardinality({ j \in DOMAIN edges :
                                         \/ weight[j] < weight[k]
                                         \/ (weight[j] = weight[k] /\ j < k) })] \o <<>>
    IN  [r \in DOMAIN edges |-> edges[CHOOSE k \in DOMAIN edges : place[k] = r]] \o <<>>

\* Kruskal's loop over the sorted edges with a union-find (comp: node -> set)
RECURSIVE kruskal(_, _, _)
kruskal(sorted, comp, accepted) ==
    IF sorted = <<>> THEN accepted
    ELSE LET e == Head(sorted)
         IN  IF comp[e[1]] = comp[e[2]]
             THEN kruskal(Tail(sorted), comp, accepted)
             ELSE kruskal(Tail(sorted),
                          [v \in DOMAIN comp |->
                              IF comp[v] = comp[e[2]] THEN comp[e[1]] ELSE comp[v]] \o <<>>,
                          Append(accepted, e))

\* _create_minimum_spanning_tree(points): nx.minimum_spanning_tree(G) of the
\* complete graph; the tree's edges in the order they were accepted
create_minimum_spanning_tree(points) ==
    kruskal(sort_edges_by_weight(complete_graph_edges(Len(points)), points),
            [v \in 1..Len(points) |-> v], <<>>)

\* mst_graph.edges(): node by node, each node's edges to later nodes in the
\* order they were added
graph_edges(n, accepted) ==
    LET RECURSIVE From(_)
        From(u) == IF u > n THEN <<>>
                   ELSE SelectSeq(accepted, LAMBDA e : e[1] = u) \o From(u + 1)
    IN  From(1)

\* _create_corridor_between_boxes(box1, box2, corridor_width); "None" when
\* the centers coincide
create_corridor_between_boxes(box1, box2, corridor_width) ==
    LET center1 == box1.center
        center2 == box2.center
        dx == center2.x - center1.x
        dy == center2.y - center1.y
    IN  IF dx = 0 /\ dy = 0 THEN [type |-> "None", x |-> 0, y |-> 0, width |-> 0, height |-> 0]
        ELSE IF Abs(dx) > Abs(dy)
        THEN [type |-> "horizontal",
              x |-> Min(center1.x, center2.x),
              y |-> center1.y - corridor_width \div 2,
              width |-> Abs(dx),
              height |-> corridor_width]
        ELSE [type |-> "vertical",
              x |-> center1.x - corridor_width \div 2,
              y |-> Min(center1.y, center2.y),
              width |-> corridor_width,
              height |-> Abs(dy)]

\* _generate_corridor_network(boxes, spatial_framework, corridor_width):
\* corridors, each with the tree edge it was created for (joins; the tree is
\* returned as network_graph), in the order of mst_graph.edges()
generate_corridor_network(boxes, spatial_framework, corridor_width) ==
    IF Len(boxes) < 2 THEN [corridors |-> <<>>]
    ELSE LET box_centers == [i \in DOMAIN boxes |-> boxes[i].center]
             mst_graph == create_minimum_spanning_tree(box_centers)
             edges == graph_edges(Len(boxes), mst_graph)
             made == [k \in DOMAIN edges |->
                         [joins |-> edges[k],
                          shape |-> create_corridor_between_boxes(
                                        boxes[edges[k][1]], boxes[edges[k][2]], corridor_width)]]
             kept == SelectSeq(made, LAMBDA c : c.shape.type # "None")
         IN  [corridors |-> [k \in DOMAIN kept |->
                               [type |-> kept[k].shape.type,
                                x |-> kept[k].shape.x, y |-> kept[k].shape.y,
                                width |-> kept[k].shape.width,
                                height |-> kept[k].shape.height,
                                joins |-> kept[k].joins]]]

-----------------------------------------------------------------------------
(* IntelligentPlacementEngine: statistics and the whole call               *)

\* _calculate_advanced_statistics(placement_result, corridor_network,
\* dimensions, profile); utilization_rate in tenths of a percent, rounded
\* down, efficiency_score in thousandths
calculate_advanced_statistics(placement_result, corridors, dimensions, profile) ==
    LET boxes == placement_result.boxes
        total_area == dimensions.width * dimensions.height
        box_area == SumSeq([i \in DOMAIN boxes |-> boxes[i].width * boxes[i].height])
        corridor_area == SumSeq([i \in DOMAIN corridors |->
                                    corridors[i].width * corridors[i].height])
    IN  [total_boxes |-> Len(boxes),
         total_corridors |-> Len(corridors),
         total_area |-> total_area,
         box_area |-> box_area,
         corridor_area |-> corridor_area,
         utilization_rate |-> IF total_area > 0
                              THEN (box_area * 10) \div (total_area \div 100) ELSE 0,
         efficiency_score |-> placement_result.score,
         wasted_space |-> total_area - box_area - corridor_area,
         layout_profile |-> profile]

NoStatistics ==
    [total_boxes |-> 0, total_corridors |-> 0, total_area |-> 0, box_area |-> 0,
     corridor_area |-> 0, utilization_rate |-> 0, efficiency_score |-> 0, wasted_space |-> 0,
     layout_profile |-> InitialLayoutProfiles["25%"]]

\* the profile optimize_placement works with:
\* self.layout_profiles.get(layout_profile, self.layout_profiles['25%'])
profile_for(profiles, layout_profile) ==
    IF layout_profile \in DOMAIN profiles THEN profiles[layout_profile] ELSE profiles["25%"]

\* optimize_placement(plan_data, box_dimensions, corridor_width, layout_profile)
\* on the plan whose spatial framework is spatial_framework
optimize_placement(spatial_framework, profiles, box_dimensions, corridor_width, layout_profile, stream, pos) ==
    LET dimensions == spatial_framework.dimensions
        profile == profile_for(profiles, layout_profile)
        adjusted_box_dims == adjust_box_dimensions(box_dimensions, profile, dimensions)
        placement_result == multi_objective_optimization(
                                spatial_framework, adjusted_box_dims, corridor_width,
                                profile, stream, pos)
        corridor_network == generate_corridor_network(
                                placement_result.boxes, spatial_framework, corridor_width)
    IN  IF spatial_framework.raised
        THEN [status |-> "raised", boxes |-> <<>>, corridors |-> <<>>,
              statistics |-> NoStatistics, drawn |-> pos]
        ELSE IF placement_result.raised
        THEN [status |-> "raised", boxes |-> <<>>, corridors |-> <<>>,
              statistics |-> NoStatistics, drawn |-> pos]
        ELSE [status |-> "ok",
              boxes |-> placement_result.boxes,
              corridors |-> corridor_network.corridors,
              statistics |-> calculate_advanced_statistics(
                                 placement_result, corridor_network.corridors,
                                 dimensions, profile),
              drawn |-> placement_result.drawn]

-----------------------------------------------------------------------------
(* IntelligentPlacementEngine._validate_constraints                        *)

\* the violations list _validate_constraints builds, as tags in the order of
\* the appends: "wall" per wall closer than 0.5, the four boundary margins,
\* "zone" per no_entry zone that carries a 'polygon' and meets the box
constraint_violations(new_position, new_dimensions, plan) ==
    LET new_box == Rect(new_position.x, new_position.y,
                        new_dimensions.width, new_dimensions.height)
        walls == plan.walls
        dimensions == plan.dimensions
        restricted_zones == plan.zones.no_entry
        Tag(c, t) == IF c THEN <<t>> ELSE <<>>
        RECURSIVE WallTags(_)
        WallTags(i) ==
            IF i > Len(walls) THEN <<>>
            ELSE Tag(RectWallDistSq(new_box, walls[i]) < MinWallDistance * MinWallDistance,
                     "wall") \o WallTags(i + 1)
        RECURSIVE ZoneTags(_)
        ZoneTags(i) ==
            IF i > Len(restricted_zones) THEN <<>>
            ELSE Tag(restricted_zones[i].polygon
                       /\ RectsIntersect(restricted_zones[i], new_box), "zone")
                 \o ZoneTags(i + 1)
    IN  WallTags(1)
        \o Tag(new_box.x < BoundaryMargin, "left")
        \o Tag(new_box.y < BoundaryMargin, "bottom")
        \o Tag(new_box.x + new_box.width > dimensions.width - BoundaryMargin, "right")
        \o Tag(new_box.y + new_box.height > dimensions.height - BoundaryMargin, "top")
        \o ZoneTags(1)

\* _validate_constraints(new_position, new_dimensions, plan_data):
\* return len(violations) == 0
validate_constraints(new_position, new_dimensions, plan) ==
    Len(constraint_violations(new_position, new_dimensions, plan)) = 0

-----------------------------------------------------------------------------
(* The engine's request handlers (production_app)                          *)

NoRequest == [box_dimensions |-> [width |-> 0, height |-> 0],
              corridor_width |-> 0, layout_profile |-> ""]
NoResult == [status |-> "none", boxes |-> <<>>, corridors |-> <<>>,
             statistics |-> NoStatistics, layout_profile |-> ""]
NoValidation == [ilot_id |-> 0, position |-> Pt(0, 0),
                 dimensions |-> [width |-> 0, height |-> 0],
                 constraints_valid |-> FALSE, violations |-> <<>>, found |-> <<>>]

\* positions a live edit may ask for a new unit
EditPositions == { Pt(4000, 7000), Pt(100, 100) }

InitEngine ==
    /\ plan_id \in PlanIds
    /\ plan_data = Plans[plan_id]
    /\ layout_profiles = InitialLayoutProfiles
    /\ seed_stream \in Streams
    /\ rng_pos = 0
    /\ op = "none"
    /\ request = NoRequest
    /\ result = NoResult
    /\ validation = NoValidation
    /\ repeated = "no"

\* optimize_layout: POST /optimize for the stored plan
OptimizeLayout(box_dimensions, corridor_width, layout_profile) ==
    \E r \in { optimize_placement(SpatialFrameworks[plan_id], layout_profiles,
                                   box_dimensions, corridor_width, layout_profile,
                                   seed_stream, rng_pos) } :
        /\ op' = "optimize"
        /\ request' = [box_dimensions |-> box_dimensions,
                       corridor_width |-> corridor_width,
                       layout_profile |-> layout_profile]
        /\ result' = [status |-> r.status, boxes |-> r.boxes, corridors |-> r.corridors,
                      statistics |-> r.statistics, layout_profile |-> layout_profile]
        /\ rng_pos' = r.drawn
        /\ validation' = NoValidation
        /\ repeated' = IF result.status = "none" \/ request' # request THEN "no"
                       ELSE IF r.boxes = result.boxes /\ r.corridors = result.corridors
                            THEN "same" ELSE "differs"
        /\ UNCHANGED <<app_vars, plan_id, plan_data, layout_profiles, seed_stream,
                       so_corridor_width, so_call>>

\* update_ilot that stores an accepted edit in the layout
UpdateIlotStoring(ilot_id, new_position, new_dimensions) ==
    LET constraints_valid == validate_constraints(new_position, new_dimensions, plan_data)
    IN  /\ op' = "validate"
        /\ validation' = [ilot_id |-> ilot_id, position |-> new_position,
                          dimensions |-> new_dimensions,
                          constraints_valid |-> constraints_valid,
                          violations |-> IF constraints_valid THEN <<>>
                                         ELSE <<"Overlap detected", "Too close to wall">>,
                          found |-> constraint_violations(new_position, new_dimensions,
                                                          plan_data)]
        /\ result' = IF constraints_valid /\ ilot_id \in DOMAIN result.boxes
                     THEN [result EXCEPT !.boxes[ilot_id].x = new_position.x,
                                         !.boxes[ilot_id].y = new_position.y]
                     ELSE result
        /\ UNCHANGED <<app_vars, plan_id, plan_data, layout_profiles, seed_stream, rng_pos,
                       request, repeated, so_corridor_width, so_call>>

\* update_ilot: POST /api/update_ilot moving unit ilot_id (0: a unit that is
\* not in the layout) to new_position with new_dimensions
UpdateIlot(ilot_id, new_position, new_dimensions) ==
    LET found == constraint_violations(new_position, new_dimensions, plan_data)
        constraints_valid == validate_constraints(new_position, new_dimensions, plan_data)
    IN  /\ op' = "validate"
        /\ validation' = [ilot_id |-> ilot_id, position |-> new_position,
                          dimensions |-> new_dimensions,
                          constraints_valid |-> constraints_valid,
                          violations |-> IF constraints_valid THEN <<>>
                                         ELSE <<"Overlap detected", "Too close to wall">>,
                          found |-> found]
        /\ UNCHANGED <<app_vars, plan_id, plan_data, layout_profiles, seed_stream, rng_pos,
                       request, result, repeated, so_corridor_width, so_call>>

Optimize ==
    \E b \in BoxSizes, w \in CorridorWidths, p \in RequestedProfiles :
        OptimizeLayout(b, w, p)

\* a live edit of a placed unit: kept where it is, or moved onto the place
\* of the next unit of the layout
EditPlaced ==
    \E i \in DOMAIN result.boxes :
        \E pos \in { Pt(result.boxes[j].x, result.boxes[j].y) :
                         j \in {i, (i % Len(result.boxes)) + 1} } :
            UpdateIlot(i, pos, [width |-> result.boxes[i].width,
                                height |-> result.boxes[i].height])

\* a live edit that adds a unit
EditNew ==
    \E pos \in EditPositions : UpdateIlot(0, pos, [width |-> 2000, height |-> 2000])



-----------------------------------------------------------------------------
(* SpaceOptimizer (the basic optimizer)                                    *)

\* wall.get('thickness', 0.2)
DefaultWallThickness == 200
\* step_size = 0.5
StepSize == 500
\* tolerance = box_dimensions['height'] + 0.5
RowSlack == 500
\* self.corridor_width = 1.2 in __init__
DefaultCorridorWidth == 1200

\* most units of a search result of the basic optimizer that the model follows
MaxBasicUnits == 2
\* positions the random choices of the search are followed on
BasicSamplePositions == { Pt(0, 0), Pt(3500, 0), Pt(0, 3000) }
BasicCorridorWidths == { 1000, 1200 }
\* concurrent requests served by the one SpaceOptimizer instance
Calls == { 1, 2 }

\* _get_plan_boundaries(plan_data)
get_plan_boundaries(plan) ==
    IF plan.walls = <<>>
    THEN [min_x |-> 0, max_x |-> plan.dimensions.width,
          min_y |-> 0, max_y |-> plan.dimensions.height]
    ELSE LET all_x == {plan.walls[i].start.x : i \in DOMAIN plan.walls}
                        \cup {plan.walls[i].end.x : i \in DOMAIN plan.walls}
             all_y == {plan.walls[i].start.y : i \in DOMAIN plan.walls}
                        \cup {plan.walls[i].end.y : i \in DOMAIN plan.walls}
         IN  [min_x |-> CHOOSE v \in all_x : \A u \in all_x : v <= u,
              max_x |-> CHOOSE v \in all_x : \A u \in all_x : v >= u,
              min_y |-> CHOOSE v \in all_y : \A u \in all_y : v <= u,
              max_y |-> CHOOSE v \in all_y : \A u \in all_y : v >= u]

\* _get_obstacles(plan_data): the no-entry zones, then the walls as rectangles
get_obstacles(plan) ==
    [i \in 1..(Len(plan.zones.no_entry) + Len(plan.walls)) |->
        IF i <= Len(plan.zones.no_entry)
        THEN LET zone == plan.zones.no_entry[i]
             IN  [type |-> "no_entry", x |-> zone.x, y |-> zone.y,
                  width |-> zone.width, height |-> zone.height]
        ELSE LET wall == plan.walls[i - Len(plan.zones.no_entry)]
                 wall_thickness == DefaultWallThickness
             IN  [type |-> "wall",
                  x |-> Min(wall.start.x, wall.end.x) - wall_thickness \div 2,
                  y |-> Min(wall.start.y, wall.end.y) - wall_thickness \div 2,
                  width |-> Abs(wall.end.x - wall.start.x) + wall_thickness,
                  height |-> Abs(wall.end.y - wall.start.y) + wall_thickness]]

\* _rectangles_overlap(x1, y1, w1, h1, x2, y2, w2, h2)
rectangles_overlap(x1, y1, w1, h1, x2, y2, w2, h2) ==
    ~ (x1 >= x2 + w2 \/ x2 >= x1 + w1 \/ y1 >= y2 + h2 \/ y2 >= y1 + h1)

\* a test that finds no conflict
position_conflicts_never(x, y, width, height, obstacles) == FALSE

\* _position_conflicts_with_obstacles(x, y, width, height, obstacles)
position_conflicts_with_obstacles(x, y, width, height, obstacles) ==
    \E i \in DOMAIN obstacles :
        rectangles_overlap(x, y, width, height,
                           obstacles[i].x, obstacles[i].y,
                           obstacles[i].width, obstacles[i].height)

\* _generate_potential_positions(plan_bounds, box_dimensions, obstacles):
\* the grid positions in the order of the two while loops
generate_potential_positions(plan_bounds, box_dimensions, obstacles) ==
    LET box_width == box_dimensions.width
        box_height == box_dimensions.height
        Steps(lo, hi, size) == IF lo + size > hi THEN 0 ELSE ((hi - size - lo) \div StepSize) + 1
        nx == Steps(plan_bounds.min_x, plan_bounds.max_x, box_width)
        ny == Steps(plan_bounds.min_y, plan_bounds.max_y, box_height)
        grid == [k \in 1..(nx * ny) |->
                    Pt(plan_bounds.min_x + ((k - 1) \div ny) * StepSize,
                       plan_bounds.min_y + ((k - 1) % ny) * StepSize)]
    IN  SelectSeq(grid, LAMBDA p :
            ~position_conflicts_with_obstacles(p.x, p.y, box_width, box_height, obstacles))

\* the potential positions of each plan and requested unit size, computed once
PotentialPositions ==
    [id \in PlanIds |-> [b \in BoxSizes |->
        generate_potential_positions(get_plan_boundaries(Plans[id]), b,
                                     get_obstacles(Plans[id]))]]

\* all sequences over S of length 1..n
RECURSIVE SeqsUpTo(_, _)
SeqsUpTo(S, n) ==
    IF n = 0 THEN {}
    ELSE LET shorter == SeqsUpTo(S, n - 1)
         IN  {<<p>> : p \in S} \cup {Append(q, p) : q \in shorter, p \in S}

\* _genetic_algorithm_placement(potential_positions, ...): the individuals
\* the search can return. Without potential positions every individual is
\* empty. Otherwise no individual is empty (a random individual holds a
\* position, _crossover samples at least one, _mutate removes none from an
\* individual of one), and its members are potential positions in any order,
\* repeated or overlapping ones included (_crossover samples parent1 +
\* parent2 without a check); the model follows those of at most
\* MaxBasicUnits members on the sample positions
genetic_algorithm_placement(potential_positions) ==
    IF potential_positions = <<>> THEN { <<>> }
    ELSE SeqsUpTo(SeqToSet(potential_positions) \cap BasicSamplePositions, MaxBasicUnits)

\* sorted(boxes, key=lambda b: b['y']): stable
RECURSIVE sort_by_y(_)
sort_by_y(boxes) ==
    IF boxes = <<>> THEN <<>>
    ELSE LET first == CHOOSE k \in DOMAIN boxes :
                          /\ \A j \in DOMAIN boxes : boxes[k].y <= boxes[j].y
                          /\ \A j \in 1..(k - 1) : boxes[j].y > boxes[k].y
             rest == [j \in 1..(Len(boxes) - 1) |->
                         IF j < first THEN boxes[j] ELSE boxes[j + 1]]
         IN  <<boxes[first]>> \o sort_by_y(rest)

\* the loop of _group_boxes_into_rows over sorted_boxes[1:]
RECURSIVE group_rows(_, _, _, _)
group_rows(sorted_boxes, k, rows, tolerance) ==
    IF k > Len(sorted_boxes) THEN rows
    ELSE LET box == sorted_boxes[k]
             current_row == rows[Len(rows)]
         IN  IF Abs(box.y - current_row[Len(current_row)].y) <= tolerance
             THEN group_rows(sorted_boxes, k + 1,
                             [rows EXCEPT ![Len(rows)] = Append(current_row, box)], tolerance)
             ELSE group_rows(sorted_boxes, k + 1, Append(rows, <<box>>), tolerance)

\* _group_boxes_into_rows(boxes, tolerance)
group_boxes_into_rows(boxes, tolerance) ==
    IF boxes = <<>> THEN <<>>
    ELSE LET sorted_boxes == sort_by_y(boxes)
         IN  group_rows(sorted_boxes, 2, << <<sorted_boxes[1]>> >>, tolerance)


\* _create_corridor_between_rows(row1, row2, box_dimensions), reading
\* self.corridor_width; type "None" when the rows leave no room
create_corridor_between_rows(row1, row2, box_dimensions, self_corridor_width) ==
    LET both == row1 \o row2
        row1_max_y == SetMax({row1[i].y + box_dimensions.height : i \in DOMAIN row1})
        row2_min_y == SetMin({row2[i].y : i \in DOMAIN row2})
        available_space == row2_min_y - row1_max_y
        corridor_start_x == SetMin({both[i].x : i \in DOMAIN both})
        corridor_end_x == SetMax({both[i].x + box_dimensions.width : i \in DOMAIN both})
    IN  IF available_space < self_corridor_width
        THEN [type |-> "None", x |-> 0, y |-> 0, width |-> 0, height |-> 0]
        ELSE [type |-> "corridor",
              x |-> corridor_start_x,
              y |-> row1_max_y + (available_space - self_corridor_width) \div 2,
              width |-> corridor_end_x - corridor_start_x,
              height |-> self_corridor_width]

\* _generate_corridors(boxes, box_dimensions): the corridors between adjacent
\* rows, each with the number of the lower row it lies above (rows; not a
\* key of the dict)
generate_corridors(boxes, box_dimensions, self_corridor_width) ==
    IF Len(boxes) < 2 THEN <<>>
    ELSE LET tolerance == box_dimensions.height + RowSlack
             rows == group_boxes_into_rows(boxes, tolerance)
             made == [i \in 1..(Len(rows) - 1) |->
                         [rows |-> i,
                          shape |-> create_corridor_between_rows(
                                        rows[i], rows[i + 1], box_dimensions,
                                        self_corridor_width)]]
             kept == SelectSeq(made, LAMBDA c : c.shape.type # "None")
         IN  [k \in DOMAIN kept |->
                 [type |-> kept[k].shape.type,
                  x |-> kept[k].shape.x, y |-> kept[k].shape.y,
                  width |-> kept[k].shape.width, height |-> kept[k].shape.height,
                  rows |-> kept[k].rows]]

\* _calculate_statistics(boxes, corridors, plan_bounds, box_dimensions);
\* utilization_rate in tenths of a percent, rounded down
calculate_statistics(boxes, corridors, plan_bounds, box_dimensions) ==
    LET total_area == (plan_bounds.max_x - plan_bounds.min_x)
                        * (plan_bounds.max_y - plan_bounds.min_y)
        box_area == Len(boxes) * box_dimensions.width * box_dimensions.height
        corridor_area == SumSeq([i \in DOMAIN corridors |->
                                    corridors[i].width * corridors[i].height])
    IN  [total_boxes |-> Len(boxes),
         total_corridors |-> Len(corridors),
         box_area |-> box_area,
         corridor_area |-> corridor_area,
         total_area |-> total_area,
         utilization_rate |-> IF total_area > 0
                              THEN (box_area * 10) \div (total_area \div 100) ELSE 0]

NoBasicStatistics ==
    [total_boxes |-> 0, total_corridors |-> 0, box_area |-> 0, corridor_area |-> 0,
     total_area |-> 0, utilization_rate |-> 0]

IdleCall == [pc |-> "idle", box_dimensions |-> [width |-> 0, height |-> 0],
             corridor_width |-> 0, boxes |-> <<>>, corridors |-> <<>>,
             statistics |-> NoBasicStatistics]

\* SpaceOptimizer.optimize_placement up to the end of the search: the
\* instance field is set, the positions are generated, the search returns
BasicStart(c, box_dimensions, corridor_width) ==
    /\ so_call[c].pc = "idle"
    /\ \E best_solution \in
          genetic_algorithm_placement(PotentialPositions[plan_id][box_dimensions]) :
          so_call' = [so_call EXCEPT ![c] =
                         [pc |-> "searched", box_dimensions |-> box_dimensions,
                          corridor_width |-> corridor_width, boxes |-> best_solution,
                          corridors |-> <<>>, statistics |-> NoBasicStatistics]]
    /\ so_corridor_width' = corridor_width
    /\ UNCHANGED <<app_vars, plan_id, plan_data, layout_profiles, seed_stream, rng_pos, op,
                   request, result, validation, repeated>>

\* SpaceOptimizer.optimize_placement from _generate_corridors to the return
BasicFinish(c) ==
    /\ so_call[c].pc = "searched"
    /\ LET corridors == generate_corridors(so_call[c].boxes, so_call[c].box_dimensions,
                                           so_corridor_width)
       IN  so_call' = [so_call EXCEPT ![c] =
                          [@ EXCEPT !.pc = "done",
                                    !.corridors = corridors,
                                    !.statistics = calculate_statistics(
                                        so_call[c].boxes, corridors,
                                        get_plan_boundaries(plan_data),
                                        so_call[c].box_dimensions)]]
    /\ UNCHANGED <<app_vars, plan_id, plan_data, layout_profiles, seed_stream, rng_pos, op,
                   request, result, validation, repeated, so_corridor_width>>

-----------------------------------------------------------------------------
(* app.py: POST /optimize                                                  *)

NoResponse ==
    [body |-> [success |-> FALSE], status |-> 0, engine_raised |-> FALSE,
     served_by |-> "none", requested |-> 0, uploaded |-> "none", found |-> "none"]

\* the state of the upload folder and of the processors at start
NothingUploaded ==
    /\ upload_files = <<>>
    /\ pp_plans = {}
    /\ uuids = 0
    /\ upload_responses = {}

\* at most so many files are uploaded, and so many ids made
MaxUploads == 2
MaxUuids == 3

\* what a lookup that finds no plan returns
None == [plan |-> "none", shape |-> "none", id |-> 0, stored |-> FALSE]

\* AdvancedCADProcessor.get_plan_data: self.plans is created empty and no
\* method of the class stores into it
advanced_get_plan_data(id) == None

\* PlanProcessor.get_plan_data: self.plans.get(plan_id)
get_plan_data(id) ==
    IF \E e \in pp_plans : e.id = id
    THEN [plan |-> (CHOOSE e \in pp_plans : e.id = id).plan, shape |-> "standard",
          id |-> id, stored |-> FALSE]
    ELSE None

\* the dictionary AdvancedCADProcessor.process_plan returns for a plan: its
\* 'zones' is a list, where PlanProcessor makes a dictionary of lists
advanced_plan_data(plan) == [Plans[plan] EXCEPT !.zones = <<>>]

\* upload_file: POST /upload of a file. In production mode the advanced
\* processor reads it, and the standard processor when that one raises;
\* the standard processor stores what it read under the new id
UploadFile(file) ==
    /\ Len(upload_files) < MaxUploads
    /\ uuids < MaxUuids
    /\ upload_files' = Append(upload_files, file)
    /\ uuids' = uuids + 1
    /\ pp_plans' = IF PRODUCTION_MODE /\ file.advanced_reads
                   THEN pp_plans
                   ELSE pp_plans \cup { [id |-> uuids + 1, plan |-> file.plan] }
    /\ upload_responses' = upload_responses \cup { [plan_id |-> uuids + 1, plan |-> file.plan] }
    /\ UNCHANGED <<plan_id, plan_data, layout_profiles, seed_stream, rng_pos, op, request,
                   result, validation, repeated, so_corridor_width, so_call,
                   PRODUCTION_MODE, response>>

\* the plan optimize_space works on for the plan_id of the request: the
\* stored one, else the newest file under uploads/ processed again under a
\* new id, else none
lookup_plan(requested) ==
    IF advanced_get_plan_data(requested) # None THEN advanced_get_plan_data(requested)
    ELSE IF get_plan_data(requested) # None THEN get_plan_data(requested)
    ELSE IF upload_files # <<>>
         THEN LET latest_file == upload_files[Len(upload_files)]
              IN  [plan |-> latest_file.plan,
                   shape |-> IF PRODUCTION_MODE /\ latest_file.advanced_reads
                             THEN "advanced" ELSE "standard",
                   id |-> uuids + 1,
                   stored |-> ~(PRODUCTION_MODE /\ latest_file.advanced_reads)]
    ELSE None

\* result_data of optimize_space for the optimization_result an optimizer
\* returned; metadata is optimization_result.get('optimization_metadata', {})
result_data(optimization_result, metadata, layout_profile, plan) ==
    [success |-> TRUE,
     boxes |-> optimization_result.boxes,
     ilots |-> optimization_result.boxes,
     corridors |-> optimization_result.corridors,
     statistics |-> optimization_result.statistics,
     dimensions |-> plan.dimensions,
     walls |-> plan.walls,
     zones |-> plan.zones,
     layout_profile |-> layout_profile,
     production_mode |-> PRODUCTION_MODE,
     optimization_metadata |-> metadata]

\* the optimization_metadata of the engine's result
optimization_metadata(r, layout_profile) ==
    [layout_profile |-> layout_profile,
     algorithm |-> "multi_objective_genetic_with_graph_pathfinding",
     final_score |-> r.statistics.efficiency_score]

\* space_optimizer.optimize_placement(plan_data, box_dimensions,
\* corridor_width) on the shared SpaceOptimizer, run from start to end: the
\* results it can return
basic_optimize_placement(id, box_dimensions, corridor_width) ==
    { [boxes |-> best_solution,
       corridors |-> generate_corridors(best_solution, box_dimensions, corridor_width),
       statistics |-> calculate_statistics(
                          best_solution,
                          generate_corridors(best_solution, box_dimensions, corridor_width),
                          get_plan_boundaries(Plans[id]), box_dimensions)] :
      best_solution \in genetic_algorithm_placement(PotentialPositions[id][box_dimensions]) }

\* optimize_space: POST /optimize carrying a plan_id. Without a plan the
\* answer is 404. In production mode the engine is called; when it raises,
\* and when the production components are missing, the basic optimizer
\* makes the result. Both optimizers raise on the 'zones' list of the
\* advanced processor's plans, which the handler answers with 500
OptimizeSpace(requested, box_dimensions, corridor_width, layout_profile) ==
    \E found \in { lookup_plan(requested) } :
    \E uploaded \in { IF \E u \in upload_responses : u.plan_id = requested
                      THEN (CHOOSE u \in upload_responses : u.plan_id = requested).plan
                      ELSE "none" } :
        IF found = None
        THEN /\ response' = [NoResponse EXCEPT !.body = [error |-> "No architectural file found"],
                                               !.status = 404,
                                               !.requested = requested,
                                               !.uploaded = uploaded]
             /\ UNCHANGED <<plan_id, plan_data, layout_profiles, seed_stream, rng_pos, op,
                            request, result, validation, repeated, so_corridor_width,
                            so_call, PRODUCTION_MODE, upload_files, pp_plans, uuids,
                            upload_responses>>
        ELSE /\ found.id <= MaxUuids
             /\ uuids' = SetMax({uuids, found.id})
             /\ pp_plans' = IF found.stored
                            THEN pp_plans \cup { [id |-> found.id, plan |-> found.plan] }
                            ELSE pp_plans
             /\ plan_id' = found.plan
             /\ IF found.shape = "advanced"
                THEN /\ plan_data' = advanced_plan_data(found.plan)
                     /\ response' = [NoResponse EXCEPT !.body = [error |-> "zones"],
                                                       !.status = 500,
                                                       !.engine_raised = PRODUCTION_MODE,
                                                       !.requested = requested,
                                                       !.uploaded = uploaded,
                                                       !.found = found.plan]
                     /\ so_corridor_width' = corridor_width
                     /\ UNCHANGED rng_pos
                ELSE /\ plan_data' = Plans[found.plan]
                     /\ \E r \in { IF PRODUCTION_MODE
                                   THEN optimize_placement(SpatialFrameworks[found.plan],
                                                           layout_profiles, box_dimensions,
                                                           corridor_width, layout_profile,
                                                           seed_stream, rng_pos)
                                   ELSE [status |-> "not called"] } :
                            IF r.status = "ok"
                            THEN /\ response' =
                                        [body |-> result_data(r, optimization_metadata(r, layout_profile),
                                                              layout_profile, Plans[found.plan]),
                                         status |-> 200,
                                         engine_raised |-> FALSE,
                                         served_by |-> "engine",
                                         requested |-> requested,
                                         uploaded |-> uploaded,
                                         found |-> found.plan]
                                 /\ rng_pos' = r.drawn
                                 /\ UNCHANGED so_corridor_width
                            ELSE /\ \E basic \in basic_optimize_placement(found.plan, box_dimensions,
                                                                        corridor_width) :
                                        response' =
                                            [body |-> result_data(basic, "{}", layout_profile,
                                                                  Plans[found.plan]),
                                             status |-> 200,
                                             engine_raised |-> (r.status = "raised"),
                                             served_by |-> "basic",
                                             requested |-> requested,
                                             uploaded |-> uploaded,
                                             found |-> found.plan]
                                 /\ so_corridor_width' = corridor_width
                                 /\ UNCHANGED rng_pos
             /\ UNCHANGED <<layout_profiles, seed_stream, op, request, result, validation,
                            repeated, so_call, PRODUCTION_MODE, upload_files,
                            upload_responses>>

-----------------------------------------------------------------------------
(* Specifications                                                          *)

\* the placement engine and its validator behind production_app
Init ==
    /\ InitEngine
    /\ so_corridor_width = DefaultCorridorWidth
    /\ so_call = [c \in Calls |-> IdleCall]
    /\ PRODUCTION_MODE = TRUE
    /\ response = NoResponse
    /\ NothingUploaded

Next == Optimize \/ EditPlaced \/ EditNew

Spec == Init /\ [][Next]_vars

\* the placement engine filling a floor with small units: the search result
\* names the positions of a lattice, row by row
DenseDraws == 11
DenseBoxSizes == { [width |-> 1000, height |-> 1000], [width |-> 1200, height |-> 1200],
                   [width |-> 2000, height |-> 2000] }
DenseProfiles == {"10%", "25%", "30%", "35%"}
LatticeColumns == 4
LatticeStream(ox, oy, dx, dy) ==
    [i \in 1..DenseDraws |->
        [at |-> Pt(ox + ((i - 1) % LatticeColumns) * dx, oy + ((i - 1) \div LatticeColumns) * dy),
         use_flag |-> 9]]
DenseStreams ==
    { LatticeStream(ox, oy, dx, dy) :
        ox \in {1000, 1400}, oy \in {1000, 1400}, dx \in {1000, 2000}, dy \in {1000, 2000, 3000} }

InitDense ==
    /\ plan_id \in {"open", "half", "wall"}
    /\ plan_data = Plans[plan_id]
    /\ layout_profiles = InitialLayoutProfiles
    /\ seed_stream \in DenseStreams
    /\ rng_pos = 0
    /\ op = "none"
    /\ request = NoRequest
    /\ result = NoResult
    /\ validation = NoValidation
    /\ repeated = "no"
    /\ so_corridor_width = DefaultCorridorWidth
    /\ so_call = [c \in Calls |-> IdleCall]
    /\ PRODUCTION_MODE = TRUE
    /\ response = NoResponse
    /\ NothingUploaded

OptimizeDense ==
    \E b \in DenseBoxSizes, w \in CorridorWidths, p \in DenseProfiles :
        OptimizeLayout(b, w, p)

NextDense == OptimizeDense

SpecDense == InitDense /\ [][NextDense]_vars

\* app.py serving POST /optimize, with and without the production components
AppProfiles == {"10%", "25%"}
AppBoxSizes == { [width |-> 2000, height |-> 2000] }
\* the search result names the sample cells in turn, from any of them on
AppStreams ==
    { [i \in 1..MaxDraws |->
          [at |-> CHOOSE c \in SampleCells :
                      Cardinality({d \in SampleCells : d.x < c.x})
                          = (i + k) % Cardinality(SampleCells),
           use_flag |-> 9]] : k \in 0..2 }

InitApp ==
    /\ plan_id = "none"
    /\ plan_data = None
    /\ layout_profiles = InitialLayoutProfiles
    /\ seed_stream \in AppStreams
    /\ rng_pos = 0
    /\ op = "none"
    /\ request = NoRequest
    /\ result = NoResult
    /\ validation = NoValidation
    /\ repeated = "no"
    /\ so_corridor_width = DefaultCorridorWidth
    /\ so_call = [c \in Calls |-> IdleCall]
    /\ PRODUCTION_MODE \in BOOLEAN
    /\ response = NoResponse
    /\ NothingUploaded

\* the uploaded files: drawings of two plans, which the standard processor
\* reads and the advanced processor reads or raises on; every file has a
\* name of its own and one of the extensions the handler looks for
UploadedFiles == [plan : {"open", "flat"}, advanced_reads : BOOLEAN]

UploadApp == \E file \in UploadedFiles : UploadFile(file)

\* a request carries the id of a processed plan, or 0, an id that no call
\* of uuid4 has made
OptimizeApp ==
    \E requested \in 0..uuids, b \in AppBoxSizes, w \in CorridorWidths, p \in AppProfiles :
        OptimizeSpace(requested, b, w, p)

NextApp == UploadApp \/ OptimizeApp

SpecApp == InitApp /\ [][NextApp]_vars

\* the basic optimizer serving concurrent requests for units of 2 x 2 m
InitBasic ==
    /\ plan_id \in PlanIds
    /\ plan_data = Plans[plan_id]
    /\ layout_profiles = InitialLayoutProfiles
    /\ seed_stream = [i \in 1..MaxDraws |-> [at |-> Pt(2200, 2000), use_flag |-> 9]]
    /\ rng_pos = 0
    /\ op = "none"
    /\ request = NoRequest
    /\ result = NoResult
    /\ validation = NoValidation
    /\ repeated = "no"
    /\ so_corridor_width = DefaultCorridorWidth
    /\ so_call = [c \in Calls |-> IdleCall]
    /\ PRODUCTION_MODE = TRUE
    /\ response = NoResponse
    /\ NothingUploaded

BasicOptimize ==
    \E c \in Calls, w \in BasicCorridorWidths :
        BasicStart(c, [width |-> 2000, height |-> 2000], w)

BasicReturn == \E c \in Calls : BasicFinish(c)

NextBasic == BasicOptimize \/ BasicReturn

SpecBasic == InitBasic /\ [][NextBasic]_vars

-----------------------------------------------------------------------------
(* Properties of the placement engine (Spec)                               *)

\* the rectangle of a placed unit
UnitRect(b) == Rect(b.x, b.y, b.width, b.height)

\* the minimum spacing of a profile: its spacing_factor, in metres
MinSpacing(profile) == profile.spacing_factor * 100

\* the restricted and the entrance zones of the plan
ForbiddenZones == SeqToSet(plan_data.zones.no_entry) \cup SeqToSet(plan_data.zones.entry_exit)

\* the straight line between the centers of units i and j crosses a wall
CrossesWall(i, j) ==
    \E k \in DOMAIN plan_data.walls :
        SegmentsIntersect(result.boxes[i].center, result.boxes[j].center,
                          plan_data.walls[k].start, plan_data.walls[k].end)

\* floor(target area / unit area) of the last request
TargetCount ==
    LET profile == profile_for(layout_profiles, request.layout_profile)
        unit == adjust_box_dimensions(request.box_dimensions, profile, plan_data.dimensions)
        total_area == plan_data.dimensions.width * plan_data.dimensions.height
    IN  ((total_area \div 100) * profile.coverage) \div (unit.width * unit.height)

\* C1: in every layout optimize returns, every two placed units are at least
\* the selected profile's minimum spacing apart, and that spacing is positive.
C1_MinSpacing ==
    result.status = "ok" =>
        LET minSpacing == MinSpacing(result.statistics.layout_profile)
        IN  /\ minSpacing > 0
            /\ \A i, j \in DOMAIN result.boxes :
                   i < j => RectClearanceSq(UnitRect(result.boxes[i]), UnitRect(result.boxes[j]))
                                >= minSpacing * minSpacing

\* C2: the full rectangle of every placed unit lies in the building and meets
\* no restricted zone and no entrance zone (so with the right half restricted
\* every unit lies in the left half).
C2_InsidePlaceableArea ==
    result.status = "ok" =>
        \A i \in DOMAIN result.boxes :
            LET b == UnitRect(result.boxes[i])
            IN  /\ b.x >= 0 /\ b.y >= 0
                /\ b.x + b.width <= plan_data.dimensions.width
                /\ b.y + b.height <= plan_data.dimensions.height
                /\ \A z \in ForbiddenZones : ~RectsOverlapInterior(b, z)

\* C3: an optimize call with the same plan, unit size, corridor width and
\* profile as the call before it returns the same units and the same
\* corridors, in the same order.
C3_Deterministic == repeated # "differs"

\* a repeated call has returned a layout of several units with a corridor
C3_Witness ==
    /\ repeated = "same"
    /\ Len(result.boxes) >= 2
    /\ Len(result.corridors) >= 1

\* C5: a corridor joins two units only if the straight line between their
\* centers crosses no wall.
C5_NoCorridorThroughWall ==
    result.status = "ok" =>
        \A k \in DOMAIN result.corridors :
            ~CrossesWall(result.corridors[k].joins[1], result.corridors[k].joins[2])

\* C6: when walls separate every two placed units, the corridors returned are
\* the grid: each runs the full width or the full height of the building, and
\* every unit has a horizontal one through its row and a vertical one through
\* its column.
C6_GridFallback ==
    ( /\ result.status = "ok"
      /\ Len(result.boxes) >= 2
      /\ \A i, j \in DOMAIN result.boxes : i < j => CrossesWall(i, j) )
    => /\ \A k \in DOMAIN result.corridors :
              LET c == result.corridors[k]
              IN  \/ c.type = "horizontal" /\ c.x = 0
                                           /\ c.width = plan_data.dimensions.width
                  \/ c.type = "vertical" /\ c.y = 0
                                         /\ c.height = plan_data.dimensions.height
       /\ \A i \in DOMAIN result.boxes :
              /\ \E k \in DOMAIN result.corridors :
                     LET c == result.corridors[k]
                     IN  /\ c.type = "horizontal"
                         /\ c.y <= result.boxes[i].center.y
                         /\ result.boxes[i].center.y <= c.y + c.height
              /\ \E k \in DOMAIN result.corridors :
                     LET c == result.corridors[k]
                     IN  /\ c.type = "vertical"
                         /\ c.x <= result.boxes[i].center.x
                         /\ result.boxes[i].center.x <= c.x + c.width

\* C7: an optimize call naming a profile that is not in the catalog fails
\* with an error and returns no layout; no other profile takes its place.
C7_ProfileNotFound ==
    (result.status # "none" /\ request.layout_profile \notin DOMAIN layout_profiles)
    => /\ result.status = "raised"
       /\ result.boxes = <<>>
       /\ result.corridors = <<>>

C9_PlacedUnitsValidate ==
    ( /\ op = "validate"
      /\ validation.ilot_id \in DOMAIN result.boxes
      /\ validation.position = Pt(result.boxes[validation.ilot_id].x,
                                  result.boxes[validation.ilot_id].y)
      /\ validation.dimensions = [width |-> result.boxes[validation.ilot_id].width,
                                  height |-> result.boxes[validation.ilot_id].height] )
    => validation.constraints_valid

\* C10: a candidate that overlaps another unit of the layout, or lies closer
\* to it than the profile's minimum spacing, is reported invalid.
C10_OverlapReported ==
    ( /\ op = "validate"
      /\ \E j \in DOMAIN result.boxes :
             /\ j # validation.ilot_id
             /\ LET candidate == Rect(validation.position.x, validation.position.y,
                                      validation.dimensions.width,
                                      validation.dimensions.height)
                    minSpacing == MinSpacing(result.statistics.layout_profile)
                IN  \/ RectsOverlapInterior(candidate, UnitRect(result.boxes[j]))
                    \/ RectClearanceSq(candidate, UnitRect(result.boxes[j]))
                           < minSpacing * minSpacing )
    => ~validation.constraints_valid

-----------------------------------------------------------------------------
(* Properties of the basic optimizer (SpecBasic)                           *)

\* the units reachable from those in S over the joined pairs E
RECURSIVE Reach(_, _)
Reach(S, E) ==
    LET T == S \cup {e[2] : e \in {f \in E : f[1] \in S}}
               \cup {e[1] : e \in {f \in E : f[2] \in S}}
    IN  IF T = S THEN S ELSE Reach(T, E)

\* the pairs of units of a finished call that a corridor joins: the units of
\* the two rows the corridor lies between
BasicJoined(call) ==
    LET rows == group_boxes_into_rows(call.boxes, call.box_dimensions.height + RowSlack)
        Along(k) == SeqToSet(rows[call.corridors[k].rows])
                        \cup SeqToSet(rows[call.corridors[k].rows + 1])
    IN  { e \in (DOMAIN call.boxes) \X (DOMAIN call.boxes) :
            \E k \in DOMAIN call.corridors :
                call.boxes[e[1]] \in Along(k) /\ call.boxes[e[2]] \in Along(k) }

\* C4: when a call has placed two or more units, no two of them overlapping,
\* every unit can be reached from every other one over the corridors the
\* call returns.
C4_Connected ==
    \A c \in Calls :
        LET call == so_call[c]
            Unit(i) == Rect(call.boxes[i].x, call.boxes[i].y,
                            call.box_dimensions.width, call.box_dimensions.height)
        IN  ( /\ call.pc = "done"
              /\ Len(call.boxes) >= 2
              /\ \A i, j \in DOMAIN call.boxes :
                     i < j => ~RectsOverlapInterior(Unit(i), Unit(j)) )
            => Reach({1}, BasicJoined(call)) = DOMAIN call.boxes

-----------------------------------------------------------------------------
(* Properties of the validator's answer (Spec)                             *)

\* the candidate of the last validation
Candidate ==
    Rect(validation.position.x, validation.position.y,
         validation.dimensions.width, validation.dimensions.height)

\* the kinds of constraint the candidate breaks on the plan and against the
\* other units of the layout
KindsBroken ==
    {k \in {"wall"} : \E i \in DOMAIN plan_data.walls :
        RectWallDistSq(Candidate, plan_data.walls[i]) < MinWallDistance * MinWallDistance}
    \cup {k \in {"boundary"} :
            \/ Candidate.x < BoundaryMargin
            \/ Candidate.y < BoundaryMargin
            \/ Candidate.x + Candidate.width > plan_data.dimensions.width - BoundaryMargin
            \/ Candidate.y + Candidate.height > plan_data.dimensions.height - BoundaryMargin}
    \cup {k \in {"zone"} : \E i \in DOMAIN plan_data.zones.no_entry :
            RectsIntersect(plan_data.zones.no_entry[i], Candidate)}
    \cup {k \in {"overlap"} : \E j \in DOMAIN result.boxes :
            /\ j # validation.ilot_id
            /\ RectClearanceSq(Candidate, UnitRect(result.boxes[j]))
                   < MinSpacing(result.statistics.layout_profile)
                       * MinSpacing(result.statistics.layout_profile)}

\* the kinds of constraint the answer lists
KindsListed ==
    {k \in {"wall"} : \E i \in DOMAIN validation.violations :
        validation.violations[i] = "Too close to wall"}
    \cup {k \in {"overlap"} : \E i \in DOMAIN validation.violations :
            validation.violations[i] = "Overlap detected"}

\* C11: the violations listed for a rejected candidate are exactly the kinds
\* of constraint the candidate breaks.
C11_ExactViolations ==
    (op = "validate" /\ ~validation.constraints_valid) => KindsListed = KindsBroken

-----------------------------------------------------------------------------
(* Properties of concurrent calls of the basic optimizer (SpecBasic)       *)

\* C12: whatever the interleaving of two calls on the one optimizer, the
\* corridors a call returns are those built with the corridor width that was
\* passed to this call.
C12_OwnCorridorWidth ==
    \A c \in Calls :
        so_call[c].pc = "done" =>
            so_call[c].corridors = generate_corridors(so_call[c].boxes,
                                                      so_call[c].box_dimensions,
                                                      so_call[c].corridor_width)

-----------------------------------------------------------------------------
(* Frame properties of the engine's calls (Spec)                           *)

\* C13: no optimize or validate call changes the plan's geometry or the
\* profile catalog, and no validate call changes the units of the layout.
C13_InputsUnchanged ==
    [][ /\ plan_data' = plan_data
        /\ layout_profiles' = layout_profiles
        /\ (op' = "validate" => result'.boxes = result.boxes) ]_vars

\* a unit of a layout has been validated at a place where it is accepted,
\* and plan and catalog are those the engine was given
C13_Witness ==
    /\ op = "validate"
    /\ validation.ilot_id \in DOMAIN result.boxes
    /\ validation.constraints_valid
    /\ validation.position # Pt(result.boxes[validation.ilot_id].x,
                                result.boxes[validation.ilot_id].y)
    /\ plan_data = Plans[plan_id]
    /\ layout_profiles = InitialLayoutProfiles

-----------------------------------------------------------------------------
(* Properties of the target and the number of placed units (Spec)          *)

\* max_boxes of the search for a request on the plan
TargetOf(req) ==
    LET profile == profile_for(layout_profiles, req.layout_profile)
    IN  max_boxes_of(SpatialFrameworks[plan_id],
                     adjust_box_dimensions(req.box_dimensions, profile, plan_data.dimensions),
                     profile)

\* C14: an optimize call that follows one for the same plan and requested
\* unit size with a profile of no lower coverage targets no fewer units.
C14_MonotoneCoverage ==
    [][ ( /\ result.status = "ok"
          /\ op' = "optimize"
          /\ request'.box_dimensions = request.box_dimensions
          /\ request.layout_profile \in DOMAIN layout_profiles
          /\ request'.layout_profile \in DOMAIN layout_profiles
          /\ layout_profiles[request'.layout_profile].coverage
                 >= layout_profiles[request.layout_profile].coverage )
        => TargetOf(request') >= TargetOf(request) ]_vars

\* the part of a wall's buffer (the wall widened by the wall thickness to
\* each side) that lies on the plan, for a wall parallel to an axis
WallBufferArea(wall) ==
    LET x1 == Max(0, Min(wall.start.x, wall.end.x) - WallThickness)
        x2 == Min(plan_data.dimensions.width, Max(wall.start.x, wall.end.x) + WallThickness)
        y1 == Max(0, Min(wall.start.y, wall.end.y) - WallThickness)
        y2 == Min(plan_data.dimensions.height, Max(wall.start.y, wall.end.y) + WallThickness)
    IN  (x2 - x1) * (y2 - y1)

\* the placeable area of the plan: the boundary area minus the restricted
\* zones, the entrance zones and the wall buffers
TotalPlaceableArea ==
    LET zones == restricted_zones_of(plan_data.zones)
        taken == SumSeq([i \in DOMAIN zones |-> zones[i].width * zones[i].height])
                 + SumSeq([i \in DOMAIN plan_data.walls |-> WallBufferArea(plan_data.walls[i])])
    IN  Max(0, plan_data.dimensions.width * plan_data.dimensions.height - taken)

\* floor(totalPlaceableArea * coveragePercent / unitArea) of the last request
PlaceableTargetCount ==
    LET profile == profile_for(layout_profiles, request.layout_profile)
        unit == adjust_box_dimensions(request.box_dimensions, profile, plan_data.dimensions)
    IN  ((TotalPlaceableArea \div 100) * profile.coverage) \div (unit.width * unit.height)

\* C15: the number of units optimize places never exceeds the target count
\* floor(totalPlaceableArea * coveragePercent / unitArea), the placeable area
\* being the boundary area minus restricted zones, entrance zones and wall
\* buffers.
C15_PlacedWithinTarget ==
    result.status = "ok" => Len(result.boxes) <= PlaceableTargetCount

\* C16: the utilization rate of a result's statistics is (total unit area +
\* total corridor area) / building area * 100 (here in tenths of a percent,
\* rounded down).
C16_UtilizationCountsCorridors ==
    (result.status = "ok" /\ plan_data.dimensions.width * plan_data.dimensions.height > 0)
    => LET unit_area == SumSeq([i \in DOMAIN result.boxes |->
                                   result.boxes[i].width * result.boxes[i].height])
           corridor_area == SumSeq([i \in DOMAIN result.corridors |->
                                       result.corridors[i].width * result.corridors[i].height])
           building_area == plan_data.dimensions.width * plan_data.dimensions.height
       IN  result.statistics.utilization_rate =
               ((unit_area + corridor_area) * 10) \div (building_area \div 100)

\* C17: the efficiency score of a result's statistics never exceeds 100
\* (the score is kept in thousandths).
C17_EfficiencyAtMost100 ==
    result.status = "ok" => result.statistics.efficiency_score <= 100 * 1000

\* C18: an optimize call on a plan of zero width or zero height recovers and
\* returns a result instead of raising.
C18_DegenerateRecovers ==
    ( /\ op = "optimize"
      /\ (plan_data.dimensions.width = 0 \/ plan_data.dimensions.height = 0) )
    => result.status = "ok"

\* the body of a response tells the client that it is degraded: it carries a
\* degraded or a fallback flag, or does not report success, or does not
\* report production mode
MarkedDegraded(body) ==
    \/ \E key \in {"degraded", "fallback"} \cap DOMAIN body : body[key] = TRUE
    \/ body.success = FALSE
    \/ body.production_mode = FALSE

\* C19: when the advanced engine raises and the basic optimizer serves the
\* request, the response is marked degraded/fallback.
C19_FallbackMarked ==
    (response.engine_raised /\ response.served_by = "basic") => MarkedDegraded(response.body)

\* C20: in every result of the engine no two distinct placed rectangles
\* overlap with positive area; they may share an edge.
C20_NoOverlap ==
    result.status = "ok"
    => \A i, j \in DOMAIN result.boxes :
           i # j => ~RectsOverlapInterior(UnitRect(result.boxes[i]), UnitRect(result.boxes[j]))

\* a result with two units that share an edge, and with fewer units than
\* the stream has draws
C20_Witness ==
    /\ op = "optimize"
    /\ result.status = "ok"
    /\ Len(result.boxes) < MaxDraws
    /\ \E i, j \in DOMAIN result.boxes :
           /\ i # j
           /\ RectsIntersect(UnitRect(result.boxes[i]), UnitRect(result.boxes[j]))
           /\ ~RectsOverlapInterior(UnitRect(result.boxes[i]), UnitRect(result.boxes[j]))

\* the rectangle of the unit call c of the basic optimizer placed at pos
BasicUnitRect(c, pos) ==
    Rect(pos.x, pos.y, so_call[c].box_dimensions.width, so_call[c].box_dimensions.height)

\* C21: in every result of the basic optimizer no two placed unit rectangles
\* overlap and no position appears twice.
C21_BasicNoOverlap ==
    \A c \in Calls :
        so_call[c].pc = "done"
        => \A i, j \in DOMAIN so_call[c].boxes :
               i # j => /\ so_call[c].boxes[i] # so_call[c].boxes[j]
                        /\ ~RectsOverlapInterior(BasicUnitRect(c, so_call[c].boxes[i]),
                                                 BasicUnitRect(c, so_call[c].boxes[j]))

\* C22: in every result of optimize every placed unit's rectangle keeps a
\* clearance of at least 0.5 m from every wall segment.
C22_WallClearance ==
    result.status = "ok"
    => \A i \in DOMAIN result.boxes : \A k \in DOMAIN plan_data.walls :
           RectWallDistSq(UnitRect(result.boxes[i]), plan_data.walls[k])
               >= MinWallDistanceGrid * MinWallDistanceGrid

\* Scenario A: the 10 x 10 m plan without obstacles, profile "25%", unit 2 x 2 m
ScenarioA ==
    /\ plan_id = "open"
    /\ request.layout_profile = "25%"
    /\ request.box_dimensions = [width |-> 2000, height |-> 2000]

\* C23: in every result of the placement engine every placed unit's
\* rectangle lies within the building bounds [0, width] x [0, height]; in
\* Scenario A at most 6 units are placed.
C23_WithinBounds ==
    result.status = "ok"
    => /\ \A i \in DOMAIN result.boxes :
              /\ 0 <= result.boxes[i].x
              /\ result.boxes[i].x + result.boxes[i].width <= plan_data.dimensions.width
              /\ 0 <= result.boxes[i].y
              /\ result.boxes[i].y + result.boxes[i].height <= plan_data.dimensions.height
       /\ ScenarioA => Len(result.boxes) <= 6

\* Scenario A with 6 units placed, while the stream names more places
C23_Witness ==
    /\ op = "optimize"
    /\ result.status = "ok"
    /\ ScenarioA
    /\ Len(result.boxes) = 6
    /\ Len(seed_stream) > 6

\* the pairs of units the corridors of the result join
Joined == { result.corridors[k].joins : k \in DOMAIN result.corridors }

\* the pairs of units whose connecting segment crosses no wall: the edges of
\* the admissible graph
Admissible ==
    { pr \in BoxPairs(result.boxes) : ~CrossesWall(pr[1], pr[2]) }

\* the weight order of the pairs: the Euclidean distance of the centers,
\* compared by its square
Weight(pr) == DistSq(result.boxes[pr[1]].center, result.boxes[pr[2]].center)

\* C24: when n >= 2 units are placed and the admissible graph is connected,
\* the corridors are exactly the edges of a minimum spanning tree over the
\* unit centers weighted by Euclidean distance: n - 1 corridors, no cycle
\* (n - 1 edges that connect all n units), and no spanning tree of smaller
\* total weight (no pair outside the tree is lighter than an edge of the
\* tree path between its two units: removing a heavier tree edge leaves the
\* two units connected).
C24_CorridorsAreMST ==
    ( /\ result.status = "ok"
      /\ Len(result.boxes) >= 2
      /\ Reach({1}, Admissible) = DOMAIN result.boxes )
    => /\ Len(result.corridors) = Len(result.boxes) - 1
       /\ Cardinality(Joined) = Len(result.boxes) - 1
       /\ Joined \subseteq BoxPairs(result.boxes)
       /\ Reach({1}, Joined) = DOMAIN result.boxes
       /\ \A e \in BoxPairs(result.boxes) \ Joined :
              \A f \in Joined :
                  Weight(f) > Weight(e) => e[2] \in Reach({e[1]}, Joined \ {f})

\* three units that can all be joined without crossing a wall, with two
\* corridors, where the pair left out is not the one inserted last
C24_Witness ==
    /\ op = "optimize"
    /\ result.status = "ok"
    /\ Len(result.boxes) = 3
    /\ Reach({1}, Admissible) = DOMAIN result.boxes
    /\ Len(result.corridors) = 2
    /\ <<2, 3>> \in Joined

\* the side of corridor c across its run, and the side along it
CrossSection(c) == IF c.type = "horizontal" THEN c.height ELSE c.width
RunLength(c) == IF c.type = "horizontal" THEN c.width ELSE c.height

\* C25: every corridor of a result has a cross-section width equal to the
\* corridor width passed to optimize and a length equal to the Euclidean
\* distance between the centers of the two units it joins (compared by the
\* squares), and the corridor area of the statistics is the sum of length x
\* width.
C25_CorridorDimensions ==
    result.status = "ok"
    => /\ \A k \in DOMAIN result.corridors :
              LET c == result.corridors[k]
              IN  /\ CrossSection(c) = request.corridor_width
                  /\ RunLength(c) * RunLength(c)
                        = DistSq(result.boxes[c.joins[1]].center, result.boxes[c.joins[2]].center)
       /\ result.statistics.corridor_area =
              SumSeq([k \in DOMAIN result.corridors |->
                         RunLength(result.corridors[k]) * CrossSection(result.corridors[k])])

GapBelow(call, corridor) ==
    LET rows == group_boxes_into_rows(call.boxes, call.box_dimensions.height + RowSlack)
        lower == rows[corridor.rows]
    IN  SetMax({lower[i].y + call.box_dimensions.height : i \in DOMAIN lower})
GapAbove(call, corridor) ==
    LET rows == group_boxes_into_rows(call.boxes, call.box_dimensions.height + RowSlack)
        upper == rows[corridor.rows + 1]
    IN  SetMin({upper[i].y : i \in DOMAIN upper})

\* C27: every corridor the basic optimizer emits lies inside the vertical gap
\* between two adjacent rows of units, has a height equal to the corridor
\* width of its call and overlaps no placed unit; it is emitted only when the
\* gap is at least that corridor width.
C27_BasicCorridorInGap ==
    \A c \in Calls :
        so_call[c].pc = "done"
        => \A k \in DOMAIN so_call[c].corridors :
               LET call == so_call[c]
                   corridor == call.corridors[k]
               IN  /\ GapBelow(call, corridor) <= corridor.y
                   /\ corridor.y + corridor.height <= GapAbove(call, corridor)
                   /\ corridor.height = call.corridor_width
                   /\ GapAbove(call, corridor) - GapBelow(call, corridor) >= call.corridor_width
                   /\ \A i \in DOMAIN call.boxes :
                          ~RectsOverlapInterior(
                               Rect(corridor.x, corridor.y, corridor.width, corridor.height),
                               BasicUnitRect(c, call.boxes[i]))

\* the summed area of the placed units of the result
PlacedArea == SumSeq([i \in DOMAIN result.boxes |-> result.boxes[i].width * result.boxes[i].height])

\* C28: in every result of the placement engine the summed area of the
\* placed units never exceeds coverage x building area of the selected
\* profile (coverage in percent, the area in hundredths), and the utilization rate reported (in tenths of a percent) never
\* exceeds the profile's coverage percentage.
C28_AreaWithinCoverage ==
    result.status = "ok"
    => LET profile == result.statistics.layout_profile
           building_area == plan_data.dimensions.width * plan_data.dimensions.height
       IN  /\ PlacedArea <= profile.coverage * (building_area \div 100)
           /\ result.statistics.utilization_rate <= profile.coverage * 10

\* a result whose units fill the coverage so far that one more unit would
\* exceed it, while the stream names more places than units were placed
C28_Witness ==
    /\ op = "optimize"
    /\ result.status = "ok"
    /\ result.boxes # <<>>
    /\ Len(result.boxes) < Len(seed_stream)
    /\ PlacedArea + result.boxes[1].width * result.boxes[1].height
           > result.statistics.layout_profile.coverage
                 * ((plan_data.dimensions.width * plan_data.dimensions.height) \div 100)

\* C29: after an upload has returned a plan_id, an optimize request
\* carrying that plan_id finds the data of the plan that upload processed,
\* whichever processor handled the upload.
C29_UploadedPlanFound ==
    (response.status # 0 /\ response.uploaded # "none")
    => response.found = response.uploaded

\* C30: an optimize request whose plan_id no upload returned is answered
\* with 404 and runs no optimization on any other plan or file.
C30_UnknownPlanNotFound ==
    (response.status # 0 /\ response.uploaded = "none")
    => /\ response.status = 404
       /\ response.found = "none"
       /\ response.served_by = "none"

=============================================================================
